---------------------------- MODULE Spec2Model ----------------------------
(***************************************************************************)
(* Model of the apiserver package of omnom-nom/order:                      *)
(*   - ServerImpl (apiserver/server.go): the lifecycle state machine       *)
(*     Stopped / Starting / Running, its mutex, its status listener, the   *)
(*     goroutine that runs the accept loop, and Stop's graceful shutdown.  *)
(*   - gorillaMuxFactory (the service factory): the three middleware       *)
(*     tiers, Make's composition of the per-route chains and the dispatch  *)
(*     of a request through the composed handler.                          *)
(*                                                                         *)
(* Threads are modelled explicitly.  A caller thread runs one Server       *)
(* method at a time in three steps: srv.Lock(), the body, the deferred     *)
(* srv.Unlock().  The goroutine started by StartHTTP/StartHTTPS runs the   *)
(* steps of the func literal one at a time.                                *)
(***************************************************************************)
EXTENDS Integers, Sequences, FiniteSets, TLC

\* ------------------------------------------------------------------------
\* Bounds of the model
\* ------------------------------------------------------------------------

\* number of StartHTTP/StartHTTPS calls one behaviour may make
MaxStarts == 2

\* longest Include list of a route
MaxInclude == 2

\* most options passed to NewServiceGatekeeper
MaxOptions == 2

\* ------------------------------------------------------------------------
\* Values
\* ------------------------------------------------------------------------

\* caller threads (goroutines of the application that call the Server)
Callers == {1, 2}

\* ids of the goroutines started by StartHTTP / StartHTTPS
LoopIds == 1..MaxStarts

Caller(c) == <<"caller", c>>
Loop(i) == <<"loop", i>>
Free == <<"free", 0>>

\* ServerStatus
Stopped == "Stopped"
Starting == "Starting"
Running == "Running"
ServerStatus == {Stopped, Starting, Running}

\* status listeners an application may install; NoListener is the nil func
NoListener == "nil"
Listeners == {"L1", "L2"}

\* results of the Server methods
NoRet == "none"

\* a listener that calls srv.IsRunning() on the Server that notifies it
ReentrantListeners == {"LR"}
Nil == "nil"
ErrActive == "api server is already running"
ErrNoTLS == "https api server can not start without SSL certificate and private key"
ErrStopped == "api server is already stopped"
ErrDeadline == "context deadline exceeded"
ErrServerClosed == "http: Server closed"
ErrIO == "listen or accept error"
True == "true"
False == "false"
Bool(b) == IF b THEN True ELSE False

StartOps == {"StartHTTP", "StartHTTPS"}
Ops == StartOps \cup {"Stop", "IsRunning", "IsStopped", "StatusListener"}

\* names under which middleware is registered and which routes name
Names == {"a", "b"}

\* the URL prefix of the route table
Prefix == "p"

\* HTTP methods of a route definition; "" is the unset method
Methods == {"", "POST"}
MethodGet == "GET"

\* route names; a route called "Apis" mounts the static directory
RouteNames == {"HealthCheck", "Apis"}

\* sequences over S of length at most n
RECURSIVE SeqsUpTo(_, _)
SeqsUpTo(S, n) ==
    IF n = 0 THEN {<<>>}
    ELSE LET shorter == SeqsUpTo(S, n - 1)
         IN  shorter \cup {Append(q, x) : q \in shorter, x \in S}

\* the sequences that enumerate the set S, each element once
RECURSIVE Perms(_)
Perms(S) ==
    IF S = {} THEN {<<>>}
    ELSE UNION {{<<x>> \o q : q \in Perms(S \ {x})} : x \in S}

Range(q) == {q[k] : k \in DOMAIN q}

\* Exclude lists of the model: one list for every set of names
ExcludeLists == {<<>>, <<"a">>, <<"b">>, <<"a", "b">>}

\* type Route (Path and Handler are those of the route's name)
Routes ==
    [Name : RouteNames, Method : Methods,
     Include : SeqsUpTo(Names, MaxInclude), Exclude : ExcludeLists]

\* map[string][]Route handed to Make: no prefix at all, the prefix without
\* routes, or the prefix with one route
EmptyMap == [x \in {} |-> <<>>]
RouteMaps ==
    {EmptyMap} \cup {[x \in {Prefix} |-> t] : t \in {<<>>} \cup {<<r>> : r \in Routes}}

\* what a request can be matched to by the router Make returns
RouteTarget(i) == <<"route", i>>
ListingTarget == <<"listing", 0>>
NotFoundTarget == <<"notfound", 0>>
StaticTarget == <<"static", 0>>

Targets == {RouteTarget(1), ListingTarget, NotFoundTarget, StaticTarget}

\* elements of a handler chain: a registered middleware, or the handler
\* that ends the chain
Mw(tier, name) == [tier |-> tier, name |-> name]
Terminal(h) == [tier |-> "handler", name |-> h]

NoRequest == <<"none", 0>>
NoBlocker == "none"

\* http.StatusServiceUnavailable, the response code of a new gatekeeper
StatusServiceUnavailable == 503

\* values handed to ServiceGatekeeperJSONResponse: one that json.Marshal
\* serializes and one that it rejects (a channel, a cyclic structure)
Marshalable == "reply"
Unmarshalable == "chan"

\* a functional option of the gatekeeper and its argument
Opt(name, value) == <<name, value>>

GatekeeperOptions ==
    {Opt("ResponseCode", 403), Opt("ContentType", "text/html"),
     Opt("Response", "raw"), Opt("Response", ""),
     Opt("TextResponse", "busy"), Opt("LogMessage", "closed"),
     Opt("JSONResponse", Marshalable), Opt("JSONResponse", Unmarshalable)}

\* a header that was never set
Unset == "<unset>"

VARIABLES
    fAlways,         \* gorillaMuxFactory.always: the registered names
    fDefaults,       \* gorillaMuxFactory.defaults
    fAvailable,      \* gorillaMuxFactory.available
    made,            \* Make has returned
    routeMap,        \* the route table Make was called with
    updatedRoutes,   \* the normalized routes of the prefix
    handlers,        \* the handler chain bound to every request target
    makeLog,         \* the log entries Make wrote
    makeErr,         \* the error Make returned
    request,         \* the target of the request served last
    blocker,         \* the middleware name that did not call next for it
    executed         \* the chain elements that ran for it, in order

factoryVars == <<fAlways, fDefaults, fAvailable, made, routeMap,
                 updatedRoutes, handlers, makeLog, makeErr, request, blocker,
                 executed>>

VARIABLES
    serverStatus,    \* ServerImpl.serverStatus
    statusListener,  \* ServerImpl.statusListener
    tlsConfig,       \* ServerImpl.server.TLSConfig != nil
    mutex,           \* ServerImpl.Mutex: the thread that holds it, or Free
    inShutdown,      \* http.Server: Shutdown has been called on it
    listening,       \* http.Server: a listening socket is open
    busy,            \* http.Server: a request is in flight on a connection
    pc,              \* position of every caller thread
    op,              \* the Server method a caller thread is running
    arg,             \* its argument (StatusListener)
    ret,             \* the value it is about to return
    loopPc,          \* position of every accept-loop goroutine
    loopProto,       \* "http" or "https": which Start method spawned it
    nStarted,        \* number of goroutines spawned so far
    listenerCalls,   \* listener invocations made under the lock now held
    errorLog         \* the error an accept-loop goroutine logged last

serverVars == <<serverStatus, statusListener, tlsConfig, mutex, inShutdown,
                listening, busy, pc, op, arg, ret, loopPc, loopProto,
                nStarted, listenerCalls, errorLog>>

VARIABLES
    gkOptions,       \* the options NewServiceGatekeeper was called with
    gk,              \* the serviceGatekeeper it returned, NoGatekeeper before
    gkRequest,       \* what the predicate said of the request served last
    rwCalls,         \* the calls the gatekeeper made on its ResponseWriter
    nextCalls,       \* how often the gatekeeper invoked next for the request
    gkLog,           \* what the gatekeeper logged for the request
    crash            \* the call of crashHandler.ServeHTTP: its position, its
                     \* deferred calls and what has happened in it so far

gatekeeperVars == <<gkOptions, gk, gkRequest, rwCalls, nextCalls, gkLog,
                    crash>>

VARIABLES
    arrays,          \* the backing arrays of the Include and Exclude slices
    callerRoutes,    \* the []Route the caller passed to updateRoutes
    normRoutes,      \* the []Route updateRoutes returned
    normalized,      \* updateRoutes has returned
    arraysAtReturn   \* the backing arrays as they were when it returned

tableVars == <<arrays, callerRoutes, normRoutes, normalized, arraysAtReturn>>

\* everything that is not a field of the Server
outsideServer == <<factoryVars, gatekeeperVars, tableVars>>

vars == <<serverVars, factoryVars, gatekeeperVars, tableVars>>

\* ------------------------------------------------------------------------
\* ServerImpl
\* ------------------------------------------------------------------------

\* New: status Stopped; the options may have set TLS material and a listener
New ==
    /\ serverStatus = Stopped
    /\ statusListener \in {NoListener, "L1"}
    /\ tlsConfig \in BOOLEAN
    /\ mutex = Free
    /\ inShutdown = FALSE
    /\ listening = FALSE
    /\ busy = FALSE
    /\ pc = [c \in Callers |-> "idle"]
    /\ op = [c \in Callers |-> "none"]
    /\ arg = [c \in Callers |-> NoListener]
    /\ ret = [c \in Callers |-> NoRet]
    /\ loopPc = [i \in LoopIds |-> "none"]
    /\ loopProto = [i \in LoopIds |-> "none"]
    /\ nStarted = 0
    /\ listenerCalls = <<>>
    /\ errorLog = NoRet

\* func (srv *ServerImpl) status()
status == serverStatus

\* setStatus that forgets to notify the listener
setStatusSilent(t, s) ==
    /\ serverStatus' = s
    /\ listenerCalls' = listenerCalls

\* func (srv *ServerImpl) setStatus(status), run by thread t
setStatus(t, s) ==
    /\ serverStatus' = s
    /\ listenerCalls' =
         IF statusListener # NoListener
         THEN Append(listenerCalls,
                     [fn |-> statusListener, old |-> serverStatus,
                      new |-> s, thread |-> t])
         ELSE listenerCalls

\* the listeners under a mutex that the thread holding it may lock again
listenersReturnedRecursiveMutex ==
    \A k \in DOMAIN listenerCalls :
        listenerCalls[k].fn \in ReentrantListeners =>
            mutex \in {Free, listenerCalls[k].thread}

\* the listeners setStatus invoked have returned to it: setStatus calls the
\* listener synchronously, and a listener that calls a method of the Server
\* returns only after the srv.Lock() of that method, which sync.Mutex grants
\* only while no thread holds the mutex
listenersReturned ==
    \A k \in DOMAIN listenerCalls :
        listenerCalls[k].fn \in ReentrantListeners => mutex = Free

\* srv.Lock() at the head of a method: the caller thread c enters method o
Lock(c, o, a) ==
    /\ pc[c] = "idle"
    /\ mutex = Free
    /\ mutex' = Caller(c)
    /\ pc' = [pc EXCEPT ![c] = "locked"]
    /\ op' = [op EXCEPT ![c] = o]
    /\ arg' = [arg EXCEPT ![c] = a]
    /\ UNCHANGED <<serverStatus, statusListener, tlsConfig, inShutdown,
                   listening, busy, ret, loopPc, loopProto, nStarted,
                   listenerCalls>>
    /\ UNCHANGED <<errorLog, outsideServer>>

\* a method that returns without the deferred srv.Unlock()
UnlockForgotten(c) ==
    /\ pc[c] = "ret"
    /\ mutex' = mutex
    /\ pc' = [pc EXCEPT ![c] = "idle"]
    /\ op' = [op EXCEPT ![c] = "none"]
    /\ arg' = [arg EXCEPT ![c] = NoListener]
    /\ ret' = [ret EXCEPT ![c] = NoRet]
    /\ listenerCalls' = <<>>
    /\ UNCHANGED <<serverStatus, statusListener, tlsConfig, inShutdown,
                   listening, busy, loopPc, loopProto, nStarted>>
    /\ UNCHANGED <<errorLog, outsideServer>>

\* the deferred srv.Unlock() and the return to the caller
Unlock(c) ==
    /\ pc[c] = "ret"
    /\ listenersReturned
    /\ mutex' = Free
    /\ pc' = [pc EXCEPT ![c] = "idle"]
    /\ op' = [op EXCEPT ![c] = "none"]
    /\ arg' = [arg EXCEPT ![c] = NoListener]
    /\ ret' = [ret EXCEPT ![c] = NoRet]
    /\ listenerCalls' = <<>>
    /\ UNCHANGED <<serverStatus, statusListener, tlsConfig, inShutdown,
                   listening, busy, loopPc, loopProto, nStarted>>
    /\ UNCHANGED <<errorLog, outsideServer>>

\* a method body returns r without touching the server
ReturnOnly(c, r) ==
    /\ ret' = [ret EXCEPT ![c] = r]
    /\ pc' = [pc EXCEPT ![c] = "ret"]
    /\ UNCHANGED <<serverStatus, statusListener, tlsConfig, mutex,
                   inShutdown, listening, busy, op, arg, loopPc, loopProto,
                   nStarted, listenerCalls>>
    /\ UNCHANGED <<errorLog, outsideServer>>

\* a guard that refuses a start only when the server is Running
startRefusedOnlyRunning == serverStatus = Running

\* a guard that never refuses a start
startRefusedNever == FALSE

\* the guard of StartHTTP / StartHTTPS: the start is refused
startRefused == status # Stopped

\* a start that announces Running itself instead of Starting
startAcceptedSetsRunning(c, proto) ==
    /\ loopPc' = [loopPc EXCEPT ![nStarted + 1] = "lock1"]
    /\ loopProto' = [loopProto EXCEPT ![nStarted + 1] = proto]
    /\ nStarted' = nStarted + 1
    /\ setStatus(Caller(c), Running)
    /\ ret' = [ret EXCEPT ![c] = Nil]
    /\ pc' = [pc EXCEPT ![c] = "ret"]
    /\ UNCHANGED <<statusListener, tlsConfig, mutex, inShutdown, listening,
                   busy, op, arg>>
    /\ UNCHANGED <<errorLog, outsideServer>>

\* go func() { ... }() followed by srv.setStatus(Starting); return nil
startAccepted(c, proto) ==
    /\ loopPc' = [loopPc EXCEPT ![nStarted + 1] = "lock1"]
    /\ loopProto' = [loopProto EXCEPT ![nStarted + 1] = proto]
    /\ nStarted' = nStarted + 1
    /\ setStatus(Caller(c), Starting)
    /\ ret' = [ret EXCEPT ![c] = Nil]
    /\ pc' = [pc EXCEPT ![c] = "ret"]
    /\ UNCHANGED <<statusListener, tlsConfig, mutex, inShutdown, listening,
                   busy, op, arg>>
    /\ UNCHANGED <<errorLog, outsideServer>>

\* func (srv *ServerImpl) StartHTTP() error
StartHTTP(c) ==
    \/ /\ nStarted < MaxStarts
       /\ Lock(c, "StartHTTP", NoListener)
    \/ /\ pc[c] = "locked" /\ op[c] = "StartHTTP"
       /\ IF startRefused
          THEN ReturnOnly(c, ErrActive)
          ELSE startAccepted(c, "http")

\* a StartHTTPS that does not test the TLS configuration
certificateMissingIgnored == FALSE

\* srv.server.TLSConfig == nil
certificateMissing == ~tlsConfig

\* func (srv *ServerImpl) StartHTTPS() error
StartHTTPS(c) ==
    \/ /\ nStarted < MaxStarts
       /\ Lock(c, "StartHTTPS", NoListener)
    \/ /\ pc[c] = "locked" /\ op[c] = "StartHTTPS"
       /\ IF startRefused
          THEN ReturnOnly(c, ErrActive)
          ELSE IF certificateMissing
               THEN ReturnOnly(c, ErrNoTLS)
               ELSE startAccepted(c, "https")

\* a Stop that releases the lock before it waits in Shutdown
ShutdownUnlocked(c) ==
    /\ inShutdown' = TRUE
    /\ listening' = FALSE
    /\ mutex' = Free
    /\ pc' = [pc EXCEPT ![c] = "wait"]
    /\ UNCHANGED <<serverStatus, statusListener, tlsConfig, busy, op,
                   arg, ret, loopPc, loopProto, nStarted, listenerCalls>>
    /\ UNCHANGED <<errorLog, outsideServer>>

\* a Stop that sets the status to Stopped itself
ShutdownSetsStopped(c) ==
    /\ inShutdown' = TRUE
    /\ listening' = FALSE
    /\ pc' = [pc EXCEPT ![c] = "wait"]
    /\ setStatus(Caller(c), Stopped)
    /\ UNCHANGED <<statusListener, tlsConfig, mutex, busy, op, arg, ret,
                   loopPc, loopProto, nStarted>>
    /\ UNCHANGED <<errorLog, outsideServer>>

\* srv.server.Shutdown(ctx), first part: mark the server as shutting down
\* and close the listening socket
Shutdown(c) ==
    /\ inShutdown' = TRUE
    /\ listening' = FALSE
    /\ pc' = [pc EXCEPT ![c] = "wait"]
    /\ UNCHANGED <<serverStatus, statusListener, tlsConfig, mutex, busy, op,
                   arg, ret, loopPc, loopProto, nStarted, listenerCalls>>
    /\ UNCHANGED <<errorLog, outsideServer>>

\* a Stop that hands the error of Shutdown to its caller
StopResultPropagated(shutdownErr) == shutdownErr

\* the value Stop returns after srv.server.Shutdown(ctx) returned shutdownErr:
\* the error is dropped, "return nil"
StopResult(shutdownErr) == Nil

\* a Stop that waits with context.Background(), which never expires
contextNeverExpires == FALSE

\* ctx, cancel := context.WithTimeout(context.Background(),
\* srv.shutdownTimeout): the context Shutdown waits with expires, after the
\* DefaultShutdownTimeout that New put into srv.shutdownTimeout
contextExpires == TRUE

\* func (srv *ServerImpl) Stop() error
Stop(c) ==
    \/ Lock(c, "Stop", NoListener)
    \/ /\ pc[c] = "locked" /\ op[c] = "Stop"
       /\ IF status = Stopped
          THEN ReturnOnly(c, ErrStopped)
          ELSE Shutdown(c)
    \/ \* Shutdown returns nil: no request is in flight any more
       /\ pc[c] = "wait" /\ op[c] = "Stop"
       /\ ~busy
       /\ ReturnOnly(c, StopResult(Nil))
    \/ \* Shutdown returns ctx.Err(): the deadline srv.shutdownTimeout passed
       \* with a request still in flight; Stop drops the error
       /\ pc[c] = "wait" /\ op[c] = "Stop"
       /\ busy
       /\ contextExpires
       /\ ReturnOnly(c, StopResult(ErrDeadline))

\* func (srv *ServerImpl) IsRunning() bool
IsRunning(c) ==
    \/ Lock(c, "IsRunning", NoListener)
    \/ /\ pc[c] = "locked" /\ op[c] = "IsRunning"
       /\ ReturnOnly(c, Bool(status = Running))

\* func (srv *ServerImpl) IsStopped() bool
IsStopped(c) ==
    \/ Lock(c, "IsStopped", NoListener)
    \/ /\ pc[c] = "locked" /\ op[c] = "IsStopped"
       /\ ReturnOnly(c, Bool(status = Stopped))

\* a StatusListener that installs a listener only where none is installed
StatusListenerKeepsInstalled(c) ==
    \/ \E fn \in Listeners \cup {NoListener} : Lock(c, "StatusListener", fn)
    \/ /\ pc[c] = "locked" /\ op[c] = "StatusListener"
       /\ statusListener' =
            IF statusListener = NoListener THEN arg[c] ELSE statusListener
       /\ pc' = [pc EXCEPT ![c] = "ret"]
       /\ UNCHANGED <<serverStatus, tlsConfig, mutex, inShutdown, listening,
                      busy, op, arg, ret, loopPc, loopProto, nStarted,
                      listenerCalls>>
       /\ UNCHANGED <<errorLog, outsideServer>>

\* func (srv *ServerImpl) StatusListener(listener)
StatusListener(c) ==
    \/ \E fn \in Listeners \cup {NoListener} : Lock(c, "StatusListener", fn)
    \/ /\ pc[c] = "locked" /\ op[c] = "StatusListener"
       /\ statusListener' = arg[c]
       /\ pc' = [pc EXCEPT ![c] = "ret"]
       /\ UNCHANGED <<serverStatus, tlsConfig, mutex, inShutdown, listening,
                      busy, op, arg, ret, loopPc, loopProto, nStarted,
                      listenerCalls>>
       /\ UNCHANGED <<errorLog, outsideServer>>

\* StatusListener(listener) with a listener that calls back into the Server
StatusListenerReentrant(c) ==
    \E fn \in ReentrantListeners : Lock(c, "StatusListener", fn)

\* ------------------------------------------------------------------------
\* The goroutine of StartHTTP / StartHTTPS (the accept loop)
\* ------------------------------------------------------------------------

loopStep(i, from, to) ==
    /\ loopPc[i] = from
    /\ loopPc' = [loopPc EXCEPT ![i] = to]

\* srv.Lock() of the goroutine, before setStatus(Running) and setStatus(Stopped)
LoopLock(i) ==
    /\ mutex = Free
    /\ mutex' = Loop(i)
    /\ \/ loopStep(i, "lock1", "setRunning")
       \/ loopStep(i, "lock2", "setStopped")
    /\ UNCHANGED <<serverStatus, statusListener, tlsConfig, inShutdown,
                   listening, busy, pc, op, arg, ret, loopProto, nStarted,
                   listenerCalls>>
    /\ UNCHANGED <<errorLog, outsideServer>>

\* srv.setStatus(Running)
LoopSetRunning(i) ==
    /\ loopStep(i, "setRunning", "unlock1")
    /\ setStatus(Loop(i), Running)
    /\ UNCHANGED <<statusListener, tlsConfig, mutex, inShutdown, listening,
                   busy, pc, op, arg, ret, loopProto, nStarted>>
    /\ UNCHANGED <<errorLog, outsideServer>>

\* srv.setStatus(Stopped)
LoopSetStopped(i) ==
    /\ loopStep(i, "setStopped", "unlock2")
    /\ setStatus(Loop(i), Stopped)
    /\ UNCHANGED <<statusListener, tlsConfig, mutex, inShutdown, listening,
                   busy, pc, op, arg, ret, loopProto, nStarted>>
    /\ UNCHANGED <<errorLog, outsideServer>>

\* srv.Unlock() of the goroutine; after the second one the goroutine ends
LoopUnlock(i) ==
    /\ listenersReturned
    /\ mutex' = Free
    /\ listenerCalls' = <<>>
    /\ \/ loopStep(i, "unlock1", "listen")
       \/ loopStep(i, "unlock2", "done")
    /\ UNCHANGED <<serverStatus, statusListener, tlsConfig, inShutdown,
                   listening, busy, pc, op, arg, ret, loopProto, nStarted>>
    /\ UNCHANGED <<errorLog, outsideServer>>

\* a ListenAndServe that opens the socket also after Shutdown
LoopListenIgnoresShutdown(i) ==
    /\ loopPc[i] = "listen"
    /\ \/ \* the socket is bound and the accept loop runs
          /\ loopPc' = [loopPc EXCEPT ![i] = "serving"]
          /\ listening' = TRUE
          /\ UNCHANGED errorLog
       \/ \* net.Listen fails (address in use, ...)
          /\ ~inShutdown
          /\ loopPc' = [loopPc EXCEPT ![i] = "lock2"]
          /\ errorLog' = ErrIO
          /\ UNCHANGED listening
    /\ UNCHANGED <<serverStatus, statusListener, tlsConfig, mutex, inShutdown,
                   busy, pc, op, arg, ret, loopProto, nStarted,
                   listenerCalls>>
    /\ UNCHANGED outsideServer

\* a goroutine that ends when net.Listen fails, without setting the status
LoopListenFailureExits(i) ==
    /\ loopPc[i] = "listen"
    /\ \/ \* the server was shut down before: ErrServerClosed at once
          /\ inShutdown
          /\ loopPc' = [loopPc EXCEPT ![i] = "lock2"]
          /\ errorLog' = ErrServerClosed
          /\ UNCHANGED listening
       \/ \* the socket is bound and the accept loop runs
          /\ ~inShutdown
          /\ loopPc' = [loopPc EXCEPT ![i] = "serving"]
          /\ listening' = TRUE
          /\ UNCHANGED errorLog
       \/ \* net.Listen fails (address in use, ...)
          /\ ~inShutdown
          /\ loopPc' = [loopPc EXCEPT ![i] = "done"]
          /\ errorLog' = ErrIO
          /\ UNCHANGED listening
    /\ UNCHANGED <<serverStatus, statusListener, tlsConfig, mutex, inShutdown,
                   busy, pc, op, arg, ret, loopProto, nStarted,
                   listenerCalls>>
    /\ UNCHANGED outsideServer

\* srv.server.ListenAndServe() / ListenAndServeTLS("", "") is entered
LoopListen(i) ==
    /\ loopPc[i] = "listen"
    /\ \/ \* the server was shut down before: ErrServerClosed at once
          /\ inShutdown
          /\ loopPc' = [loopPc EXCEPT ![i] = "lock2"]
          /\ errorLog' = ErrServerClosed
          /\ UNCHANGED listening
       \/ \* the socket is bound and the accept loop runs
          /\ ~inShutdown
          /\ loopPc' = [loopPc EXCEPT ![i] = "serving"]
          /\ listening' = TRUE
          /\ UNCHANGED errorLog
       \/ \* net.Listen fails (address in use, ...)
          /\ ~inShutdown
          /\ loopPc' = [loopPc EXCEPT ![i] = "lock2"]
          /\ errorLog' = ErrIO
          /\ UNCHANGED listening
    /\ UNCHANGED <<serverStatus, statusListener, tlsConfig, mutex, inShutdown,
                   busy, pc, op, arg, ret, loopProto, nStarted,
                   listenerCalls>>
    /\ UNCHANGED outsideServer

\* ListenAndServe returns: Shutdown closed the socket (ErrServerClosed), or
\* Accept failed with a permanent error; the error is logged
LoopServeReturns(i) ==
    /\ loopStep(i, "serving", "lock2")
    /\ \/ inShutdown /\ errorLog' = ErrServerClosed /\ UNCHANGED listening
       \/ ~inShutdown /\ errorLog' = ErrIO /\ listening' = FALSE
    /\ UNCHANGED <<serverStatus, statusListener, tlsConfig, mutex, inShutdown,
                   busy, pc, op, arg, ret, loopProto, nStarted,
                   listenerCalls>>
    /\ UNCHANGED outsideServer

\* a client connects and sends a request while the socket is open
RequestArrives ==
    /\ listening /\ ~busy
    /\ busy' = TRUE
    /\ UNCHANGED <<serverStatus, statusListener, tlsConfig, mutex, inShutdown,
                   listening, pc, op, arg, ret, loopPc, loopProto, nStarted,
                   listenerCalls>>
    /\ UNCHANGED <<errorLog, outsideServer>>

\* the request in flight completes
RequestCompletes ==
    /\ busy
    /\ busy' = FALSE
    /\ UNCHANGED <<serverStatus, statusListener, tlsConfig, mutex, inShutdown,
                   listening, pc, op, arg, ret, loopPc, loopProto, nStarted,
                   listenerCalls>>
    /\ UNCHANGED <<errorLog, outsideServer>>


\* ------------------------------------------------------------------------
\* gorillaMuxFactory
\* ------------------------------------------------------------------------

\* func FactoryForGorillaMux(): three empty maps
FactoryForGorillaMux ==
    /\ fAlways = {}
    /\ fDefaults = {}
    /\ fAvailable = {}
    /\ made = FALSE
    /\ routeMap = EmptyMap
    /\ updatedRoutes = <<>>
    /\ handlers = [x \in {} |-> <<>>]
    /\ makeLog = <<>>
    /\ makeErr = NoRet
    /\ request = NoRequest
    /\ blocker = NoBlocker
    /\ executed = <<>>

unchangedAfterRegister ==
    /\ UNCHANGED <<made, routeMap, updatedRoutes, handlers, makeLog, makeErr,
                   request, blocker, executed>>
    /\ UNCHANGED <<serverVars, gatekeeperVars, tableVars>>

\* func (f *gorillaMuxFactory) Always(name, middleware)
Always(name) ==
    /\ ~made
    /\ fAlways' = fAlways \cup {name}
    /\ UNCHANGED <<fDefaults, fAvailable>>
    /\ unchangedAfterRegister

\* func (f *gorillaMuxFactory) Default(name, middleware)
Default(name) ==
    /\ ~made
    /\ fDefaults' = fDefaults \cup {name}
    /\ UNCHANGED <<fAlways, fAvailable>>
    /\ unchangedAfterRegister

\* func (f *gorillaMuxFactory) Available(name, middleware)
Available(name) ==
    /\ ~made
    /\ fAvailable' = fAvailable \cup {name}
    /\ UNCHANGED <<fAlways, fDefaults>>
    /\ unchangedAfterRegister

\* s[:] of a slice s: the slice of the same backing array with the same
\* bounds, that is the same slice value, not a copy of the elements
fullSlice(s) == s

\* updateRoutes without the default method
updateRoutesNoDefaultMethod(routes) ==
    [i \in DOMAIN routes |->
        [routes[i] EXCEPT !.Include = fullSlice(routes[i].Include),
                          !.Exclude = fullSlice(routes[i].Exclude)]]

\* func updateRoutes(routes []Route) []Route: the slice routes2 it returns
updateRoutes(routes) ==
    [i \in DOMAIN routes |->
        [routes[i] EXCEPT !.Method = IF @ = "" THEN MethodGet ELSE @,
                          !.Include = fullSlice(routes[i].Include),
                          !.Exclude = fullSlice(routes[i].Exclude)]]

\* a log entry of Make: log.Errorf / log.Warnf about a middleware name
logEntry(level, what, name) == [level |-> level, what |-> what, name |-> name]

\* excluded := make(map...); for _, name := range route.Exclude {...}
excluded(route) == Range(route.Exclude)

\* the loop over f.defaults without the test of the excluded names
defaultMiddlewaresAll(route, defaultsOrder) ==
    [k \in DOMAIN defaultsOrder |-> Mw("default", defaultsOrder[k])]

\* "add default middleware objects, minus the excluded ones": the loop over
\* f.defaults, which visits the map in the order defaultsOrder
defaultMiddlewares(route, defaultsOrder) ==
    LET kept == SelectSeq(defaultsOrder, LAMBDA n : n \notin excluded(route))
    IN  [k \in DOMAIN kept |-> Mw("default", kept[k])]

\* a round of the include loop without the test of the excluded names
includeOneNoConflictCheck(route, name) ==
    IF name \in fAlways
    THEN [mw |-> <<>>, log |-> <<logEntry("warn", "unconditionally included", name)>>]
    ELSE IF name \in fDefaults
    THEN [mw |-> <<>>, log |-> <<logEntry("warn", "included by default", name)>>]
    ELSE IF name \notin fAvailable
    THEN [mw |-> <<>>, log |-> <<logEntry("error", "not registered", name)>>]
    ELSE [mw |-> <<Mw("available", name)>>, log |-> <<>>]

\* a round of the include loop without the test of the default tier
includeOneNoDefaultCheck(route, name) ==
    IF name \in excluded(route)
    THEN [mw |-> <<>>, log |-> <<logEntry("error", "included and excluded", name)>>]
    ELSE IF name \in fAlways
    THEN [mw |-> <<>>, log |-> <<logEntry("warn", "unconditionally included", name)>>]
    ELSE IF name \notin fAvailable
    THEN [mw |-> <<>>, log |-> <<logEntry("error", "not registered", name)>>]
    ELSE [mw |-> <<Mw("available", name)>>, log |-> <<>>]

\* one round of the loop "for _, name := range route.Include": what it
\* appends to middlewares and what it logs
includeOne(route, name) ==
    IF name \in excluded(route)
    THEN [mw |-> <<>>, log |-> <<logEntry("error", "included and excluded", name)>>]
    ELSE IF name \in fAlways
    THEN [mw |-> <<>>, log |-> <<logEntry("warn", "unconditionally included", name)>>]
    ELSE IF name \in fDefaults
    THEN [mw |-> <<>>, log |-> <<logEntry("warn", "included by default", name)>>]
    ELSE IF name \notin fAvailable
    THEN [mw |-> <<>>, log |-> <<logEntry("error", "not registered", name)>>]
    ELSE [mw |-> <<Mw("available", name)>>, log |-> <<>>]

\* the whole loop over route.Include, from its k-th element on
RECURSIVE includedFrom(_, _)
includedFrom(route, k) ==
    IF k > Len(route.Include) THEN [mw |-> <<>>, log |-> <<>>]
    ELSE LET one == includeOne(route, route.Include[k])
             rest == includedFrom(route, k + 1)
         IN  [mw |-> one.mw \o rest.mw, log |-> one.log \o rest.log]

\* the handler the subrouter of a route ends in: route.Handler, or for the
\* route "Apis", whose subrouter gets no route, the router's plain 404
subrouterHandler(route) ==
    IF route.Name = "Apis" THEN Terminal("http.NotFound")
    ELSE Terminal(route.Name)

\* middlewares of one route: defaults, then includes, then negroni.Wrap(subrouter)
routeMiddlewares(route, defaultsOrder) ==
    defaultMiddlewares(route, defaultsOrder)
        \o includedFrom(route, 1).mw
        \o <<subrouterHandler(route)>>

\* always := negroni.New(alwaysHandlers...), f.always visited in alwaysOrder
alwaysChain(alwaysOrder) ==
    [k \in DOMAIN alwaysOrder |-> Mw("always", alwaysOrder[k])]

\* always.With(negroni.Wrap(http.HandlerFunc(NotFoundHandler)))
notFoundChain(alwaysOrder) ==
    alwaysChain(alwaysOrder) \o <<Terminal("NotFoundHandler")>>

\* routerWithPrefix.HandleFunc("/", APIListingHandler)
listingChain(alwaysOrder) == <<Terminal("APIListingHandler")>>

\* routerWithPrefix.Path("/" + route.Path).Handler(always.With(middlewares...))
routeChain(route, alwaysOrder, defaultsOrder) ==
    alwaysChain(alwaysOrder) \o routeMiddlewares(route, defaultsOrder)

\* the loop over the routes that ends at the first route with a middleware
\* resolution problem
routeHandlersUntilProblem(routes, alwaysOrder, defaultsOrder) ==
    [i \in {i \in DOMAIN routes :
                \A j \in 1..i : includedFrom(routes[j], 1).log = <<>>} |->
        routeChain(routes[i], alwaysOrder, defaultsOrder)]

\* "for _, route := range updatedRoutes": the handler bound to every route
routeHandlers(routes, alwaysOrder, defaultsOrder) ==
    [i \in DOMAIN routes |->
        routeChain(routes[i], alwaysOrder, defaultsOrder)]

\* the handler of every request target after Make(rm); the orders are the
\* ones in which the Go runtime iterates f.always and f.defaults
composed(rm, alwaysOrder, defaultsOrder) ==
    IF Prefix \notin DOMAIN rm
    THEN \* the loop over routeMap never runs: router.NotFoundHandler is nil
         \* and the router answers with its own plain 404
         [t \in {NotFoundTarget} |-> <<Terminal("http.NotFound")>>]
    ELSE LET routes == updateRoutes(rm[Prefix])
             bound == routeHandlers(routes, alwaysOrder, defaultsOrder)
             targets ==
                {NotFoundTarget, ListingTarget}
                    \cup {RouteTarget(i) : i \in DOMAIN bound}
                    \cup {StaticTarget : i \in
                             {j \in DOMAIN routes : routes[j].Name = "Apis"}}
         IN  [t \in targets |->
                IF t = NotFoundTarget THEN notFoundChain(alwaysOrder)
                ELSE IF t = ListingTarget THEN listingChain(alwaysOrder)
                ELSE IF t = StaticTarget THEN <<Terminal("http.FileServer")>>
                ELSE bound[t[2]]]

\* gorilla/mux: a path template must be empty or start with a slash; the
\* route built from any other template carries this error and never matches
muxPathError(tpl) ==
    IF tpl \in {"", "/", "/" \o Prefix} THEN Nil
    ELSE "mux: path must start with a slash"

\* the errors of the routes Make builds for the URL prefix of the table:
\* router.PathPrefix("/" + urlPrefix), routerWithPrefix.HandleFunc("/", ...)
\* and router.Path(urlPrefix)
constructionErrors(rm) ==
    IF Prefix \notin DOMAIN rm THEN {}
    ELSE {muxPathError("/" \o Prefix), muxPathError("/"),
          muxPathError(Prefix)} \ {Nil}

\* everything Make logs, route after route
RECURSIVE logsFrom(_, _)
logsFrom(routes, i) ==
    IF i > Len(routes) THEN <<>>
    ELSE includedFrom(routes[i], 1).log \o logsFrom(routes, i + 1)

\* func (f *gorillaMuxFactory) Make(routeMap) (http.Handler, error)
Make(rm) ==
    /\ ~made
    /\ made' = TRUE
    /\ routeMap' = rm
    /\ updatedRoutes' =
         IF Prefix \in DOMAIN rm THEN updateRoutes(rm[Prefix]) ELSE <<>>
    /\ \E alwaysOrder \in Perms(fAlways), defaultsOrder \in Perms(fDefaults) :
         handlers' = composed(rm, alwaysOrder, defaultsOrder)
    /\ makeLog' =
         IF Prefix \in DOMAIN rm
         THEN logsFrom(updateRoutes(rm[Prefix]), 1) ELSE <<>>
    /\ makeErr' = Nil
    /\ UNCHANGED <<fAlways, fDefaults, fAvailable, request, blocker, executed>>
    /\ UNCHANGED <<serverVars, gatekeeperVars, tableVars>>

\* what a terminal handler writes: NotFoundHandler and APIListingHandler of
\* this package, http.NotFound of the router without a NotFoundHandler; the
\* response of a route's own handler is the application's
terminalResponse(h) ==
    CASE h = "NotFoundHandler" ->
            [status |-> 404, body |-> "{\"Error\": \"API Not Supported\"}"]
      [] h = "APIListingHandler" -> [status |-> 404, body |-> ""]
      [] h = "http.NotFound" ->
            [status |-> 404, body |-> "404 page not found"]
      [] OTHER -> [status |-> 0, body |-> Unset]

\* a chain in which every middleware calls next, whatever the request
delegatesAlways(e, b) == e.tier # "handler"

\* a chain element calls next: a middleware does unless it is the one that
\* answers this request itself; a terminal handler has no next
delegates(e, b) == e.tier # "handler" /\ e.name # b

\* negroni: run the chain from its k-th element until one does not call next
RECURSIVE runFrom(_, _, _)
runFrom(chain, k, b) ==
    IF k > Len(chain) THEN <<>>
    ELSE IF delegates(chain[k], b)
         THEN <<chain[k]>> \o runFrom(chain, k + 1, b)
         ELSE <<chain[k]>>

\* the handler returned by Make serves a request that the router matches to
\* target t; b is the middleware that answers it instead of calling next
ServeHTTP(t, b) ==
    /\ made
    /\ t \in DOMAIN handlers
    /\ request' = t
    /\ blocker' = b
    /\ executed' = runFrom(handlers[t], 1, b)
    /\ UNCHANGED <<fAlways, fDefaults, fAvailable, made, routeMap,
                   updatedRoutes, handlers, makeLog, makeErr>>
    /\ UNCHANGED <<serverVars, gatekeeperVars, tableVars>>

\* ------------------------------------------------------------------------
\* serviceGatekeeper
\* ------------------------------------------------------------------------

\* the zero value of the struct serviceGatekeeper
zeroGatekeeper ==
    [gatekeeper |-> Nil, responseCode |-> 0, contentType |-> "",
     responseMessage |-> "", logMessage |-> ""]

\* no gatekeeper has been constructed and no request has reached one
NoMiddleware ==
    /\ gkOptions = <<>>
    /\ gk = zeroGatekeeper
    /\ gkRequest = NoRet
    /\ rwCalls = <<>>
    /\ nextCalls = 0
    /\ gkLog = <<>>
    /\ crash = [pc |-> "idle", deferred |-> <<>>, panicking |-> FALSE,
                events |-> <<>>]

\* json.Marshal(response)
jsonMarshal(v) ==
    IF v = Unmarshalable THEN [err |-> TRUE, bytes |-> ""]
    ELSE [err |-> FALSE, bytes |-> "\"" \o v \o "\""]

\* ServiceGatekeeperTextResponse(response)(m)
textResponse(m, response) ==
    [m EXCEPT !.contentType = "text/plain", !.responseMessage = response]

\* opt(g) for every functional option
applyOption(m, o) ==
    CASE o[1] = "Response" -> [m EXCEPT !.responseMessage = o[2]]
      [] o[1] = "ResponseCode" -> [m EXCEPT !.responseCode = o[2]]
      [] o[1] = "ContentType" -> [m EXCEPT !.contentType = o[2]]
      [] o[1] = "LogMessage" -> [m EXCEPT !.logMessage = o[2]]
      [] o[1] = "TextResponse" -> textResponse(m, o[2])
      [] o[1] = "JSONResponse" ->
            LET respJSON == jsonMarshal(o[2])
            IN  IF respJSON.err
                THEN textResponse(m,
                        "<internal error: response is not JSON format>")
                ELSE [m EXCEPT !.contentType = "application/json",
                               !.responseMessage = respJSON.bytes]

\* for _, opt := range options { opt(g) }, from the k-th option on
RECURSIVE applyOptions(_, _, _)
applyOptions(m, options, k) ==
    IF k > Len(options) THEN m
    ELSE applyOptions(applyOption(m, options[k]), options, k + 1)

\* func NewServiceGatekeeper(gatekeeper, options...)
NewServiceGatekeeper(options) ==
    /\ gk.gatekeeper = Nil
    /\ gkOptions' = options
    /\ gk' = applyOptions(
                [zeroGatekeeper EXCEPT
                    !.gatekeeper = "predicate",
                    !.responseCode = StatusServiceUnavailable,
                    !.logMessage = "service is not available"],
                options, 1)
    /\ UNCHANGED <<gkRequest, rwCalls, nextCalls, gkLog, crash>>
    /\ UNCHANGED <<serverVars, factoryVars, tableVars>>

\* a call on the http.ResponseWriter
RwCall(method, a) == [method |-> method, arg |-> a]

\* a ResponseWriter nothing was written to
freshResponse ==
    [wroteHeader |-> FALSE, status |-> 0, header |-> Unset,
     contentType |-> Unset, body |-> ""]

\* net/http: WriteHeader sends the status line and the headers set so far,
\* once; a later WriteHeader changes nothing
writeHeader(resp, code) ==
    IF resp.wroteHeader THEN resp
    ELSE [resp EXCEPT !.wroteHeader = TRUE, !.status = code,
                      !.contentType = resp.header]

\* net/http: the effect of one call on the response the client receives;
\* Write sends the header with status 200 first if none was sent
rwApply(resp, call) ==
    CASE call.method = "Header.Set" -> [resp EXCEPT !.header = call.arg]
      [] call.method = "WriteHeader" -> writeHeader(resp, call.arg)
      [] call.method = "Write" ->
            [writeHeader(resp, 200) EXCEPT !.body = @ \o call.arg]

\* the response the client receives after the calls from the k-th on
RECURSIVE responseAfter(_, _, _)
responseAfter(resp, calls, k) ==
    IF k > Len(calls) THEN resp
    ELSE responseAfter(rwApply(resp, calls[k]), calls, k + 1)

\* the refusal that sends the status line before it sets the header
refusalHeaderLate(g) ==
    <<RwCall("WriteHeader", g.responseCode),
      RwCall("Header.Set", g.contentType)>>
        \o (IF Len(g.responseMessage) > 0
            THEN <<RwCall("Write", g.responseMessage)>> ELSE <<>>)

\* the body of "if !g.gatekeeper(r)": the calls on rw
refusal(g) ==
    <<RwCall("Header.Set", g.contentType),
      RwCall("WriteHeader", g.responseCode)>>
        \o (IF Len(g.responseMessage) > 0
            THEN <<RwCall("Write", g.responseMessage)>> ELSE <<>>)

\* func (g *serviceGatekeeper) ServeHTTP(rw, r, next); accepts is what the
\* predicate g.gatekeeper(r) returns
serviceGatekeeperServeHTTP(accepts) ==
    /\ gk.gatekeeper # Nil
    /\ gkRequest' = Bool(accepts)
    /\ IF ~accepts
       THEN /\ gkLog' = <<"api request is not accepted: " \o gk.logMessage>>
            /\ rwCalls' = refusal(gk)
            /\ nextCalls' = 0
       ELSE /\ gkLog' = <<>>
            /\ rwCalls' = <<>>
            /\ nextCalls' = 1
    /\ UNCHANGED <<gkOptions, gk, crash>>
    /\ UNCHANGED <<serverVars, factoryVars, tableVars>>

\* ------------------------------------------------------------------------
\* crashHandler
\* ------------------------------------------------------------------------

\* func (m *crashHandler) ServeHTTP(rw, r, next) is called for a request:
\* "defer m.handler(rw)" registers the call, then next(rw, r) is called
crashHandlerServeHTTP ==
    /\ crash.pc \in {"idle", "returned", "unwound"}
    /\ crash' = [pc |-> "inNext", deferred |-> <<"m.handler(rw)">>,
                 panicking |-> FALSE, events |-> <<"next(rw, r)">>]
    /\ UNCHANGED <<gkOptions, gk, gkRequest, rwCalls, nextCalls, gkLog>>
    /\ UNCHANGED <<serverVars, factoryVars, tableVars>>

\* next(rw, r) exits: it returns, or it panics
NextExits(panics) ==
    /\ crash.pc = "inNext"
    /\ crash' = [crash EXCEPT
                    !.pc = "exiting",
                    !.panicking = panics,
                    !.events = Append(@, IF panics THEN "next panics"
                                         ELSE "next returns")]
    /\ UNCHANGED <<gkOptions, gk, gkRequest, rwCalls, nextCalls, gkLog>>
    /\ UNCHANGED <<serverVars, factoryVars, tableVars>>

\* a ServeHTTP whose call of the handler is a statement after next(rw, r):
\* a panic of next skips it
crashHandlerExitsNoDefer(recovers) ==
    /\ crash.pc = "exiting"
    /\ crash' = [crash EXCEPT
                    !.pc = IF crash.panicking THEN "unwound" ELSE "returned",
                    !.deferred = <<>>,
                    !.events = IF crash.panicking THEN @
                               ELSE @ \o crash.deferred]
    /\ UNCHANGED <<gkOptions, gk, gkRequest, rwCalls, nextCalls, gkLog>>
    /\ UNCHANGED <<serverVars, factoryVars, tableVars>>

\* ServeHTTP exits, by return or by the panic of next unwinding it: the
\* deferred calls run; the panic goes on to the caller of ServeHTTP unless
\* the handler recovers from it
crashHandlerExits(recovers) ==
    /\ crash.pc = "exiting"
    /\ crash' = [crash EXCEPT
                    !.pc = IF crash.panicking /\ ~recovers THEN "unwound"
                           ELSE "returned",
                    !.deferred = <<>>,
                    !.panicking = crash.panicking /\ ~recovers,
                    !.events = @ \o crash.deferred]
    /\ UNCHANGED <<gkOptions, gk, gkRequest, rwCalls, nextCalls, gkLog>>
    /\ UNCHANGED <<serverVars, factoryVars, tableVars>>

\* ------------------------------------------------------------------------
\* The route table handed to updateRoutes
\* ------------------------------------------------------------------------

\* the sizes of the route tables handed to updateRoutes
TableSizes == {0, 1, 2}

\* the contents of the backing arrays of Include and Exclude
ShortLists == {<<>>, <<"a">>, <<"a", "b">>}

\* the positions of the elements of these arrays
ElementIndexes == {1, 2}

\* the backing arrays of the slices of a table of n routes
ArrayIds(n) == (1..n) \X {"Include", "Exclude"}

\* a []string: the backing array it points to and its length
Slice(id, len) == [array |-> id, len |-> len]

\* the elements seen through a slice when the backing arrays hold mem
ViewIn(mem, s) == SubSeq(mem[s.array], 1, s.len)

\* a Route whose Include and Exclude slices have the given backing arrays
RouteOf(i, name, method, mem) ==
    [Name |-> name, Method |-> method, Path |-> name,
     Handler |-> Terminal(name),
     Include |-> Slice(<<i, "Include">>, Len(mem[<<i, "Include">>])),
     Exclude |-> Slice(<<i, "Exclude">>, Len(mem[<<i, "Exclude">>]))]

\* no route table has been handed to updateRoutes
NoTable ==
    /\ arrays = <<>>
    /\ callerRoutes = <<>>
    /\ normRoutes = <<>>
    /\ normalized = FALSE
    /\ arraysAtReturn = <<>>

\* the caller has built a route table and not yet called updateRoutes
CallerTable ==
    /\ \E n \in TableSizes :
         \E names \in [1..n -> RouteNames], methods \in [1..n -> Methods],
            mem \in [ArrayIds(n) -> ShortLists] :
            /\ arrays = mem
            /\ callerRoutes =
                 [i \in 1..n |-> RouteOf(i, names[i], methods[i], mem)]
    /\ normRoutes = <<>>
    /\ normalized = FALSE
    /\ arraysAtReturn = <<>>

\* the call updateRoutes(callerRoutes) inside Make
UpdateRoutes ==
    /\ ~normalized
    /\ normalized' = TRUE
    /\ normRoutes' = updateRoutes(callerRoutes)
    /\ arraysAtReturn' = arrays
    /\ UNCHANGED <<arrays, callerRoutes>>
    /\ UNCHANGED <<serverVars, factoryVars, gatekeeperVars>>

\* the caller assigns to an element of a list of its own route table after
\* updateRoutes returned: routes[i].Include[k] = name
CallerWrites(i, field, k, name) ==
    /\ normalized
    /\ i \in DOMAIN callerRoutes
    /\ k \in 1..callerRoutes[i][field].len
    /\ arrays' = [arrays EXCEPT ![callerRoutes[i][field].array][k] = name]
    /\ UNCHANGED <<callerRoutes, normRoutes, normalized, arraysAtReturn>>
    /\ UNCHANGED <<serverVars, factoryVars, gatekeeperVars>>

\* ------------------------------------------------------------------------
\* Specification of one Server
\* ------------------------------------------------------------------------

Init == New /\ FactoryForGorillaMux /\ NoMiddleware /\ NoTable

CallerNext(c) ==
    \/ StartHTTP(c)
    \/ StartHTTPS(c)
    \/ Stop(c)
    \/ IsRunning(c)
    \/ IsStopped(c)
    \/ StatusListener(c)
    \/ Unlock(c)

LoopNext(i) ==
    \/ LoopLock(i)
    \/ LoopSetRunning(i)
    \/ LoopUnlock(i)
    \/ LoopListen(i)
    \/ LoopServeReturns(i)
    \/ LoopSetStopped(i)

Next ==
    \/ \E c \in Callers : CallerNext(c)
    \/ \E i \in LoopIds : LoopNext(i)
    \/ RequestArrives
    \/ RequestCompletes

Spec == Init /\ [][Next]_vars

\* The same Server when the application may also install a listener that
\* calls back into the Server
NextReentrant ==
    \/ \E c \in Callers : CallerNext(c)
    \/ \E i \in LoopIds : LoopNext(i)
    \/ RequestArrives
    \/ RequestCompletes
    \/ \E c \in Callers : StatusListenerReentrant(c)

SpecReentrant == Init /\ [][NextReentrant]_vars

\* ------------------------------------------------------------------------
\* Specification of one factory: registrations, then Make, then requests
\* ------------------------------------------------------------------------

\* route tables of two routes under the prefix
TwoRouteMaps ==
    {[x \in {Prefix} |-> <<r1, r2>>] :
        r1 \in {r \in Routes : r.Name = "HealthCheck" /\ r.Method = ""
                                /\ r.Include \in ExcludeLists},
        r2 \in {r \in Routes : r.Method = "POST"
                                /\ r.Include \in ExcludeLists}}

\* a Server that was constructed without options and is never started
ServerUnused ==
    /\ New
    /\ statusListener = NoListener
    /\ ~tlsConfig

InitMake == ServerUnused /\ FactoryForGorillaMux /\ NoMiddleware /\ NoTable

NextMake ==
    \/ \E name \in Names : Always(name)
    \/ \E name \in Names : Default(name)
    \/ \E name \in Names : Available(name)
    \/ \E rm \in RouteMaps : Make(rm)
    \/ \E t \in Targets, b \in Names \cup {NoBlocker} : ServeHTTP(t, b)

SpecMake == InitMake /\ [][NextMake]_vars

\* registrations, then Make of a table of two routes
NextMakeTwo ==
    \/ \E name \in Names : Always(name)
    \/ \E name \in Names : Default(name)
    \/ \E name \in Names : Available(name)
    \/ \E rm \in TwoRouteMaps : Make(rm)

SpecMakeTwo == InitMake /\ [][NextMakeTwo]_vars

\* ------------------------------------------------------------------------
\* Specification of one gatekeeper: construction, then requests
\* ------------------------------------------------------------------------

InitGate == ServerUnused /\ FactoryForGorillaMux /\ NoMiddleware /\ NoTable

NextGate ==
    \/ \E options \in SeqsUpTo(GatekeeperOptions, MaxOptions) :
          NewServiceGatekeeper(options)
    \/ \E accepts \in BOOLEAN : serviceGatekeeperServeHTTP(accepts)
    \/ crashHandlerServeHTTP
    \/ \E panics \in BOOLEAN : NextExits(panics)
    \/ \E recovers \in BOOLEAN : crashHandlerExits(recovers)

SpecGate == InitGate /\ [][NextGate]_vars

\* ------------------------------------------------------------------------
\* Specification of one route table: updateRoutes, then writes of the caller
\* ------------------------------------------------------------------------

InitTable == ServerUnused /\ FactoryForGorillaMux /\ NoMiddleware /\ CallerTable

NextTable ==
    \/ UpdateRoutes
    \/ \E i \in TableSizes, field \in {"Include", "Exclude"},
          k \in ElementIndexes, name \in Names :
             CallerWrites(i, field, k, name)

SpecTable == InitTable /\ [][NextTable]_vars

\* The same Server under the scheduling the Go runtime gives it: a thread
\* that is inside a method keeps running (the body, the wait of Shutdown,
\* which ends at the latest when the deadline passes, and the Unlock), the
\* goroutine keeps running, a goroutine blocked in srv.Lock() gets the mutex
\* when it is released again and again (sync.Mutex hands the lock to a
\* starving waiter), and the accept loop returns once Shutdown closed it.
\* Nothing forces the application to call a method, a client to send a
\* request, or the socket to fail.
CallerRuns(c) ==
    /\ pc[c] # "idle"
    /\ CallerNext(c)

LoopRuns(i) ==
    \/ LoopSetRunning(i)
    \/ LoopUnlock(i)
    \/ LoopListen(i)
    \/ inShutdown /\ LoopServeReturns(i)
    \/ LoopSetStopped(i)

Fairness ==
    /\ \A c \in Callers : WF_vars(CallerRuns(c))
    /\ \A i \in LoopIds : WF_vars(LoopRuns(i))
    /\ \A i \in LoopIds : SF_vars(LoopLock(i))

FairSpec == Init /\ [][Next]_vars /\ Fairness

\* ------------------------------------------------------------------------
\* Properties of the Server lifecycle
\* ------------------------------------------------------------------------

liveLoops == {i \in LoopIds : loopPc[i] \notin {"none", "done"}}

\* thread c executes the body of a Start method in this step
startBody(c) == pc[c] = "locked" /\ op[c] \in StartOps /\ pc'[c] = "ret"

\* C1: a StartHTTP/StartHTTPS call whose body runs while the status is not
\* Stopped returns the already-active error, and that step changes nothing:
\* not the status, no listener is invoked, no goroutine is started.
C1_StartRefusedWhenActive ==
    [][\A c \in Callers :
         (startBody(c) /\ serverStatus # Stopped) =>
            /\ ret'[c] = ErrActive
            /\ UNCHANGED <<serverStatus, statusListener, listenerCalls,
                           loopPc, loopProto, nStarted, inShutdown,
                           listening>>]_vars

\* C1 witness: a Start method is returning the already-active error while
\* the server is Starting or Running
C1_Witness ==
    \E c \in Callers :
        /\ pc[c] = "ret" /\ op[c] \in StartOps /\ ret[c] = ErrActive
        /\ serverStatus \in {Starting, Running}

\* C2: the status changes only Stopped -> Starting (by a Start method that
\* returns nil, before it returns), Starting -> Running (by the goroutine) and
\* Running -> Stopped (by the goroutine, after ListenAndServe returned and
\* the socket is closed); a Start method that returns nil has set Starting.
C2_Lifecycle ==
    [][/\ serverStatus' # serverStatus =>
            \/ /\ serverStatus = Stopped /\ serverStatus' = Starting
               /\ \E c \in Callers : startBody(c) /\ ret'[c] = Nil
            \/ /\ serverStatus = Starting /\ serverStatus' = Running
               /\ \E i \in LoopIds : loopPc[i] = "setRunning"
                                      /\ loopPc'[i] = "unlock1"
            \/ /\ serverStatus = Running /\ serverStatus' = Stopped
               /\ ~listening
               /\ \E i \in LoopIds : loopPc[i] = "setStopped"
                                      /\ loopPc'[i] = "unlock2"
       /\ \A c \in Callers :
            (startBody(c) /\ ret'[c] = Nil) =>
                serverStatus = Stopped /\ serverStatus' = Starting]_vars

\* C2 witness: a goroutine has just set Stopped at the end of a full cycle
C2_Witness ==
    \E i \in LoopIds :
        /\ loopPc[i] = "unlock2"
        /\ serverStatus = Stopped
        /\ mutex = Loop(i)

\* C3: at any time at most one accept-loop goroutine exists, and none that
\* has still to set Stopped exists while the status is Stopped.
C3_AtMostOneLoop ==
    /\ Cardinality(liveLoops) <= 1
    /\ serverStatus = Stopped => \A i \in liveLoops : loopPc[i] = "unlock2"
    /\ serverStatus # Stopped => liveLoops # {}

\* C3 witness: the goroutine of the first Start serves, and a later Start
\* call is being refused
C3_Witness ==
    /\ nStarted = 1
    /\ loopPc[1] = "serving"
    /\ \E c \in Callers : op[c] \in StartOps /\ ret[c] = ErrActive

\* a Start method is returning nil to thread c
startReturnsNil(c) == pc[c] = "ret" /\ op[c] \in StartOps /\ ret[c] = Nil

\* C4 (as amended): StartHTTP on a Stopped server returns nil, and after a
\* Start method has returned nil the status eventually becomes Running.
C4_EventuallyRunning ==
    /\ [][\A c \in Callers :
            (startBody(c) /\ op[c] = "StartHTTP" /\ serverStatus = Stopped)
                => ret'[c] = Nil]_vars
    /\ \A c \in Callers : startReturnsNil(c) ~> (serverStatus = Running)

\* C4 witness: StartHTTP is returning nil
C4_Witness ==
    \E c \in Callers :
        startReturnsNil(c) /\ op[c] = "StartHTTP" /\ serverStatus = Starting

\* C4 as stated: after StartHTTP returned nil, a caller that keeps polling
\* IsRunning() eventually gets true.
C4_PollObservesRunning ==
    (\A c \in Callers : []<><<IsRunning(c) /\ pc[c] = "locked">>_vars) =>
        ((\E c \in Callers : startReturnsNil(c) /\ op[c] = "StartHTTP")
            ~> (\E c \in Callers : op[c] = "IsRunning" /\ ret[c] = True))

\* thread c executes a step of Stop
stopStep(c) == op[c] = "Stop" /\ pc[c] # "idle" /\ pc'[c] # pc[c]

\* C5: the body of Stop, run while the status is Stopped, returns the
\* already-stopped error and changes nothing; run while the status is
\* Starting or Running it starts the shutdown, and Stop then returns nil
\* whether the drain completed or the deadline passed.
C5_StopResult ==
    [][\A c \in Callers :
         /\ (stopStep(c) /\ pc[c] = "locked" /\ serverStatus = Stopped) =>
               /\ ret'[c] = ErrStopped /\ pc'[c] = "ret"
               /\ UNCHANGED <<serverStatus, statusListener, listenerCalls,
                              loopPc, nStarted, inShutdown, listening, busy>>
         /\ (stopStep(c) /\ pc[c] = "locked" /\ serverStatus # Stopped) =>
               inShutdown' /\ ~listening' /\ pc'[c] = "wait"
         /\ (stopStep(c) /\ pc[c] = "wait") =>
               ret'[c] = Nil /\ pc'[c] = "ret"]_vars

\* C5 witness: Stop is returning nil although a request is still in flight
\* (the deadline passed)
C5_Witness ==
    \E c \in Callers :
        /\ pc[c] = "ret" /\ op[c] = "Stop" /\ ret[c] = Nil
        /\ busy /\ inShutdown

\* Stop is returning nil to thread c, the status being Running
stopReturnsNil(c) ==
    pc[c] = "ret" /\ op[c] = "Stop" /\ ret[c] = Nil /\ serverStatus = Running

\* C6: no step of Stop changes the status; the status becomes Stopped only
\* in a step of the goroutine, after its ListenAndServe has returned; and
\* after Stop returned nil for a Running server the status eventually is
\* Stopped.
C6_StoppedByLoopOnly ==
    /\ [][/\ \A c \in Callers : stopStep(c) => serverStatus' = serverStatus
          /\ (serverStatus' = Stopped /\ serverStatus # Stopped) =>
                \E i \in LoopIds : /\ loopPc[i] = "setStopped"
                                   /\ mutex = Loop(i)
                                   /\ ~listening]_vars
    /\ \A c \in Callers : stopReturnsNil(c) ~> (serverStatus = Stopped)

\* C6 witness: Stop has returned nil and the goroutine, out of its listening
\* loop, has set Stopped
C6_Witness ==
    \E i \in LoopIds :
        /\ loopPc[i] = "unlock2"
        /\ inShutdown
        /\ serverStatus = Stopped
        /\ loopProto[i] = "http"

\* the threads that are at a point where they read or write the status
atStatusAccess(t) ==
    \/ \E c \in Callers : t = Caller(c) /\ pc[c] \in {"locked", "wait", "ret"}
    \/ \E i \in LoopIds : t = Loop(i)
          /\ loopPc[i] \in {"setRunning", "unlock1", "setStopped", "unlock2"}

\* C7: a thread that is between its Lock and its Unlock holds the mutex;
\* a step that changes the status is taken by the thread that holds the
\* mutex, which still holds it afterwards; it is a caller thread in a Start
\* method for Starting and the goroutine for Running and Stopped; and it
\* invokes the installed listener exactly once with (old, new) on that
\* thread, or no listener when none is installed.
C7_TransitionsUnderLock ==
    /\ [](\A c \in Callers : atStatusAccess(Caller(c)) => mutex = Caller(c))
    /\ [](\A i \in LoopIds : atStatusAccess(Loop(i)) => mutex = Loop(i))
    /\ [][serverStatus' # serverStatus =>
            /\ mutex # Free /\ mutex' = mutex
            /\ atStatusAccess(mutex)
            /\ mutex[1] = (IF serverStatus' = Starting THEN "caller" ELSE "loop")
            /\ listenerCalls' =
                 IF statusListener = NoListener
                 THEN listenerCalls
                 ELSE Append(listenerCalls,
                             [fn |-> statusListener, old |-> serverStatus,
                              new |-> serverStatus', thread |-> mutex])]_vars
    /\ [](Len(listenerCalls) <= 1)

\* C7 witness: the goroutine, holding the mutex, has notified listener L2 of
\* Running -> Stopped
C7_Witness ==
    \E i \in LoopIds :
        /\ mutex = Loop(i)
        /\ listenerCalls = <<[fn |-> "L2", old |-> Running, new |-> Stopped,
                              thread |-> Loop(i)]>>

\* ------------------------------------------------------------------------
\* Properties of the composed handler
\* ------------------------------------------------------------------------

\* the chain Make bound to the i-th route of the prefix
chainOf(i) == handlers[RouteTarget(i)]

\* the middleware (not the terminal handler) elements of a chain
middlewareOf(chain) == {e \in Range(chain) : e.tier # "handler"}

\* number of elements of the sequence q that satisfy Test
CountIn(q, Test(_)) == Cardinality({k \in DOMAIN q : Test(q[k])})

\* C8, for the handler made from a route table that has the prefix: for a
\* request the handler served in which no middleware withheld next, every
\* always-tier middleware ran.
C8_AlwaysRunsForEveryRequest ==
    (request # NoRequest /\ blocker = NoBlocker /\ Prefix \in DOMAIN routeMap) =>
        \A n \in fAlways : Mw("always", n) \in Range(executed)

\* C9 as stated: for a name in both Include and Exclude of a route, no
\* middleware registered under that name is in the chain composed for the
\* route, and the conflict is logged.
C9_ConflictAbsentFromChain ==
    made =>
        \A i \in DOMAIN updatedRoutes :
            \A n \in Range(updatedRoutes[i].Include)
                        \cap Range(updatedRoutes[i].Exclude) :
                /\ \A e \in middlewareOf(chainOf(i)) : e.name # n
                /\ logEntry("error", "included and excluded", n)
                        \in Range(makeLog)

\* C9 (as amended): for a name in both Include and Exclude of a route, the
\* chain composed for the route holds no default-tier and no available-tier
\* middleware registered under that name (it holds the always-tier one
\* exactly when the name is registered in the always tier), and Make logs
\* the conflict once for every occurrence of the name in Include.
C9_ConflictSkipped ==
    made =>
        \A i \in DOMAIN updatedRoutes :
            \A n \in Range(updatedRoutes[i].Include)
                        \cap Range(updatedRoutes[i].Exclude) :
                /\ \A e \in middlewareOf(chainOf(i)) :
                        e.name = n => e.tier = "always"
                /\ Mw("always", n) \in Range(chainOf(i)) <=> n \in fAlways
                /\ LET IsN(x) == x = n
                       IsConflict(l) ==
                           l = logEntry("error", "included and excluded", n)
                   IN  CountIn(makeLog, IsConflict)
                           = CountIn(updatedRoutes[i].Include, IsN)

\* C9 witness: Make has composed a route that includes and excludes a name
\* registered in the available tier only
C9_Witness ==
    /\ made
    /\ \E i \in DOMAIN updatedRoutes :
         \E n \in Range(updatedRoutes[i].Include)
                     \cap Range(updatedRoutes[i].Exclude) :
            /\ n \in fAvailable
            /\ n \notin fAlways \cup fDefaults
            /\ Len(makeLog) > 0

\* C10: the default-tier middleware in the chain of a route are exactly
\* those registered under a name that is not in the route's Exclude list,
\* each of them once.
C10_DefaultsMinusExcluded ==
    made =>
        \A i \in DOMAIN updatedRoutes :
            /\ {e \in middlewareOf(chainOf(i)) : e.tier = "default"}
                 = {Mw("default", n) :
                        n \in fDefaults \ Range(updatedRoutes[i].Exclude)}
            /\ \A n \in fDefaults :
                 LET IsDefaultN(e) == e = Mw("default", n)
                 IN  CountIn(chainOf(i), IsDefaultN) <= 1

\* C10 witness: Make has composed a route that excludes one of two
\* registered default-tier middleware
C10_Witness ==
    /\ made
    /\ fDefaults = Names
    /\ \E i \in DOMAIN updatedRoutes :
         /\ updatedRoutes[i].Exclude = <<"a">>
         /\ Mw("default", "b") \in Range(chainOf(i))

\* the name is one the include loop of the route appends
appendable(route, n) ==
    /\ n \notin Range(route.Exclude)
    /\ n \notin fAlways
    /\ n \notin fDefaults
    /\ n \in fAvailable

\* the available-tier elements of a chain, in the order of the chain
availableOf(chain) == SelectSeq(chain, LAMBDA e : e.tier = "available")

\* the occurrences of names in the Include lists that the include loop skips
skippedIncludes ==
    {<<i, k>> \in (DOMAIN updatedRoutes) \X (1..(MaxInclude + 1)) :
        /\ k \in DOMAIN updatedRoutes[i].Include
        /\ ~appendable(updatedRoutes[i], updatedRoutes[i].Include[k])}

\* C11: the available-tier middleware of a route's chain are, in the order of
\* Include, the occurrences of the names in Include that are not in Exclude,
\* not in the always tier, not in the default tier and in the available tier;
\* every other occurrence adds nothing to the chain and one entry to the log.
C11_IncludeTruthTable ==
    made =>
        /\ \A i \in DOMAIN updatedRoutes :
             LET route == updatedRoutes[i]
                 kept == SelectSeq(route.Include,
                                   LAMBDA n : appendable(route, n))
             IN  availableOf(chainOf(i))
                     = [k \in DOMAIN kept |-> Mw("available", kept[k])]
        /\ Len(makeLog) = Cardinality(skippedIncludes)
        /\ \A l \in Range(makeLog) :
             \E i \in DOMAIN updatedRoutes :
                /\ l.name \in Range(updatedRoutes[i].Include)
                /\ ~appendable(updatedRoutes[i], l.name)

\* C11 witness: Make has composed a route whose Include list holds a name it
\* appends and a name of the default tier, which it skips with a log entry
C11_Witness ==
    /\ made
    /\ \E i \in DOMAIN updatedRoutes :
         /\ updatedRoutes[i].Include = <<"a", "b">>
         /\ updatedRoutes[i].Exclude = <<>>
         /\ "a" \in fDefaults
         /\ appendable(updatedRoutes[i], "b")
         /\ availableOf(chainOf(i)) = <<Mw("available", "b")>>
         /\ makeLog = <<logEntry("warn", "included by default", "a")>>


\* ------------------------------------------------------------------------
\* Properties of the gatekeeper
\* ------------------------------------------------------------------------

\* the response the client has after the gatekeeper's calls on a fresh
\* ResponseWriter
gkResponse == responseAfter(freshResponse, rwCalls, 1)

\* C12: when the predicate returned false for the request, next was not
\* invoked and the response has the gatekeeper's response code, content type
\* and body; when it returned true, next was invoked once and the gatekeeper
\* made no call on the ResponseWriter.
C12_Gatekeeper ==
    /\ gkRequest = False =>
         /\ nextCalls = 0
         /\ gkResponse.wroteHeader
         /\ gkResponse.status = gk.responseCode
         /\ gkResponse.contentType = gk.contentType
         /\ gkResponse.body = gk.responseMessage
    /\ gkRequest = True =>
         /\ nextCalls = 1
         /\ rwCalls = <<>>

\* C12 witness: a gatekeeper configured with a response code and a JSON
\* response has refused a request
C12_Witness ==
    /\ gkOptions = <<Opt("ResponseCode", 403), Opt("JSONResponse", Marshalable)>>
    /\ gkRequest = False
    /\ gkResponse.status = 403
    /\ gkResponse.contentType = "application/json"
    /\ gkResponse.body = "\"reply\""
    /\ nextCalls = 0


\* ------------------------------------------------------------------------
\* Properties of the route normalization
\* ------------------------------------------------------------------------

\* C13: updateRoutes returns as many routes as it was given, in the same
\* order; a route whose Method is empty gets GET, every other route keeps its
\* Method; Name, Path and Handler are those of the caller's route; and the
\* call changes nothing in the caller's routes.
C13_Normalization ==
    [][(~normalized /\ normalized') =>
          /\ callerRoutes' = callerRoutes
          /\ arrays' = arrays
          /\ DOMAIN normRoutes' = DOMAIN callerRoutes
          /\ \A i \in DOMAIN callerRoutes :
               /\ normRoutes'[i].Method =
                    IF callerRoutes[i].Method = "" THEN MethodGet
                    ELSE callerRoutes[i].Method
               /\ normRoutes'[i].Name = callerRoutes[i].Name
               /\ normRoutes'[i].Path = callerRoutes[i].Path
               /\ normRoutes'[i].Handler = callerRoutes[i].Handler]_vars

\* C13 witness: a table of two different routes, the first without a Method
\* and the second with one, has been normalized
C13_Witness ==
    /\ normalized
    /\ Len(normRoutes) = 2
    /\ callerRoutes[1].Method = "" /\ normRoutes[1].Method = MethodGet
    /\ callerRoutes[2].Method = "POST" /\ normRoutes[2].Method = "POST"
    /\ normRoutes[1].Name = "HealthCheck" /\ normRoutes[2].Name = "Apis"

\* C14: what the normalized routes hold in Include and Exclude is what they
\* held when updateRoutes returned, whatever the caller has written to the
\* elements of the lists of its own routes since.
C14_ListsCopied ==
    normalized =>
        \A i \in DOMAIN normRoutes :
            /\ ViewIn(arrays, normRoutes[i].Include)
                 = ViewIn(arraysAtReturn, normRoutes[i].Include)
            /\ ViewIn(arrays, normRoutes[i].Exclude)
                 = ViewIn(arraysAtReturn, normRoutes[i].Exclude)

\* C15: when a route Make built carries a construction error, Make returned
\* a non-nil error and no handler.
C15_ConstructionErrorReported ==
    (made /\ constructionErrors(routeMap) # {}) =>
        /\ makeErr # Nil
        /\ DOMAIN handlers = {}


\* the sequence q without its k-th element
RemoveAt(q, k) == SubSeq(q, 1, k - 1) \o SubSeq(q, k + 1, Len(q))

\* the route table rm without the k-th Include entry of its j-th route
withoutInclude(rm, j, k) ==
    [rm EXCEPT ![Prefix][j].Include = RemoveAt(@, k)]

startHTTPSBody(c) ==
    pc[c] = "locked" /\ op[c] = "StartHTTPS" /\ pc'[c] = "ret"

\* C17: a StartHTTPS call on a Server without TLS configuration returns an
\* error and that step leaves the status as it is (Stopped, when the call
\* found the server Stopped; the error is then the one about the missing
\* certificate), invokes no listener and starts no goroutine; on a Stopped
\* Server with TLS configuration the call does what StartHTTP does: it
\* returns nil, sets Starting, notifies the listener and starts the
\* goroutine, which sets Running before it serves.
C17_StartHTTPSNeedsTLS ==
    /\ [][\A c \in Callers :
            startHTTPSBody(c) =>
               IF ~tlsConfig
               THEN /\ ret'[c] = IF serverStatus = Stopped THEN ErrNoTLS
                                 ELSE ErrActive
                    /\ UNCHANGED <<serverStatus, listenerCalls, loopPc,
                                   loopProto, nStarted, listening>>
               ELSE serverStatus = Stopped =>
                    /\ ret'[c] = Nil
                    /\ serverStatus' = Starting
                    /\ nStarted' = nStarted + 1
                    /\ loopPc'[nStarted'] = "lock1"
                    /\ loopProto'[nStarted'] = "https"
                    /\ statusListener # NoListener =>
                         listenerCalls' =
                            <<[fn |-> statusListener, old |-> Stopped,
                               new |-> Starting, thread |-> Caller(c)]>>]_vars
    /\ [](\A i \in LoopIds :
            /\ loopProto[i] = "https" => tlsConfig
            /\ loopPc[i] \in {"lock1", "setRunning"} =>
                 serverStatus = Starting
            /\ loopPc[i] \in {"unlock1", "listen", "serving"} =>
                 serverStatus = Running)

\* C17 witness: StartHTTPS is returning the error about the missing
\* certificate on a Server that is Stopped and has no goroutine
C17_Witness ==
    \E c \in Callers :
        /\ pc[c] = "ret" /\ op[c] = "StartHTTPS" /\ ret[c] = ErrNoTLS
        /\ ~tlsConfig
        /\ serverStatus = Stopped
        /\ nStarted = 0


\* the accept loop of goroutine i has ended and the goroutine has not yet
\* set the status
loopEnded(i) == loopPc[i] \in {"lock2", "setStopped"}

\* C18: when ListenAndServe returns to the goroutine, the goroutine logs the
\* error (the I/O error when the server was not shut down); it then sets
\* the status to Stopped under the lock and the listener is notified of that
\* transition; the status is Stopped whenever no goroutine is left; and a
\* goroutine whose accept loop has ended does set Stopped.
C18_LoopEndSetsStopped ==
    /\ [][\A i \in LoopIds :
            /\ (loopPc[i] \in {"listen", "serving"} /\ loopPc'[i] = "lock2") =>
                 errorLog' = IF inShutdown THEN ErrServerClosed ELSE ErrIO
            /\ (loopPc[i] = "setStopped" /\ loopPc'[i] # "setStopped") =>
                 /\ serverStatus' = Stopped
                 /\ mutex = Loop(i)
                 /\ statusListener # NoListener =>
                      listenerCalls' =
                         <<[fn |-> statusListener, old |-> serverStatus,
                            new |-> Stopped, thread |-> Loop(i)]>>]_vars
    /\ [](liveLoops = {} => serverStatus = Stopped)
    /\ \A i \in LoopIds :
         loopEnded(i) ~> (loopPc[i] = "unlock2" /\ serverStatus = Stopped)

\* C18 witness: the goroutine, whose ListenAndServe failed with an I/O error
\* that it logged, has set the status from Running to Stopped and notified
\* the listener
C18_Witness ==
    \E i \in LoopIds :
        /\ loopPc[i] = "unlock2"
        /\ errorLog = ErrIO
        /\ ~inShutdown
        /\ serverStatus = Stopped
        /\ listenerCalls = <<[fn |-> "L1", old |-> Running, new |-> Stopped,
                              thread |-> Loop(i)]>>


\* thread c is inside Stop and has not reached its return
inStop(c) == op[c] = "Stop" /\ pc[c] \in {"locked", "wait"}

\* C19: a thread that is inside Stop reaches the return of Stop, also when
\* the request in flight never completes; when it returns with the request
\* still in flight it returns nil, the deadline of Shutdown having passed.
C19_StopTerminates ==
    /\ \A c \in Callers : inStop(c) ~> (op[c] = "Stop" /\ pc[c] = "ret")
    /\ \A c \in Callers :
         (op[c] = "Stop" /\ pc[c] = "wait" /\ busy) ~>
            (op[c] = "Stop" /\ pc[c] = "ret" /\ ret[c] = Nil)
    /\ [][\A c \in Callers :
            (pc[c] = "wait" /\ pc'[c] # "wait") =>
                /\ pc'[c] = "ret"
                /\ ret'[c] = Nil
                /\ busy' = busy]_vars

\* C19 witness: Stop is returning while the request is still in flight
C19_Witness ==
    \E c \in Callers :
        /\ op[c] = "Stop" /\ pc[c] = "ret" /\ ret[c] = Nil
        /\ inShutdown
        /\ busy


\* a listener that calls back into the Server has been invoked and the lock
\* under which it was invoked has not been released since
inReentrantListener ==
    \E k \in DOMAIN listenerCalls :
        listenerCalls[k].fn \in ReentrantListeners

\* C20: once setStatus has invoked a listener that calls a lock-taking
\* method of the Server, the thread that performs the transition holds the
\* mutex for ever: the listener does not return, the thread does not move,
\* and no other thread gets into or out of a method of the Server.
C20_ReentrantListenerDeadlocks ==
    /\ [](inReentrantListener =>
            /\ mutex # Free
            /\ \A k \in DOMAIN listenerCalls : listenerCalls[k].thread = mutex)
    /\ [][inReentrantListener =>
            /\ mutex' = mutex
            /\ listenerCalls' = listenerCalls
            /\ pc' = pc
            /\ loopPc' = loopPc
            /\ serverStatus' = serverStatus]_vars

\* C20 witness: StartHTTP has invoked the listener that calls IsRunning for
\* Stopped -> Starting and holds the mutex, and the goroutine it started
\* waits for the mutex
C20_Witness ==
    \E c \in Callers :
        /\ op[c] = "StartHTTP" /\ pc[c] = "ret"
        /\ mutex = Caller(c)
        /\ listenerCalls = <<[fn |-> "LR", old |-> Stopped, new |-> Starting,
                              thread |-> Caller(c)]>>
        /\ loopPc[1] = "lock1"

\* thread c executes the body of StatusListener in this step
listenerBody(c) ==
    pc[c] = "locked" /\ op[c] = "StatusListener" /\ pc'[c] = "ret"

\* C21: the body of StatusListener(fn) runs under the lock, makes fn the
\* installed listener and is no status transition; the installed listener
\* changes in no other step; a StatusListener(fn) that is returning has fn
\* installed; and a status transition leaves the installed listener as it
\* is and invokes exactly it, once (nothing when it is nil).
C21_ListenerReplaced ==
    /\ [][\A c \in Callers :
            listenerBody(c) =>
                /\ mutex = Caller(c)
                /\ statusListener' = arg[c]
                /\ UNCHANGED <<serverStatus, listenerCalls>>]_vars
    /\ [][statusListener' # statusListener =>
            \E c \in Callers : listenerBody(c)]_vars
    /\ [](\A c \in Callers :
            (pc[c] = "ret" /\ op[c] = "StatusListener") =>
                statusListener = arg[c])
    /\ [][serverStatus' # serverStatus =>
            /\ statusListener' = statusListener
            /\ listenerCalls' =
                 IF statusListener = NoListener THEN listenerCalls
                 ELSE listenerCalls \o
                        <<[fn |-> statusListener, old |-> serverStatus,
                           new |-> serverStatus', thread |-> mutex]>>
            /\ \A k \in DOMAIN listenerCalls' :
                 k > Len(listenerCalls) =>
                    listenerCalls'[k].fn = statusListener]_vars

\* C21 witness: on a Server constructed with listener L1 and given L2 by
\* StatusListener while it was Starting, the goroutine has notified L2, and
\* L2 only, of Starting -> Running
C21_Witness ==
    \E i \in LoopIds :
        /\ statusListener = "L2"
        /\ loopPc[i] = "unlock1"
        /\ listenerCalls = <<[fn |-> "L2", old |-> Starting, new |-> Running,
                              thread |-> Loop(i)]>>


\* C22: a thread to which IsRunning is returning true finds the listening
\* socket of the Server open, and a thread to which IsStopped is returning
\* true finds it closed.
C22_RunningMeansListening ==
    \A c \in Callers :
        /\ (op[c] = "IsRunning" /\ pc[c] = "ret" /\ ret[c] = True) =>
              listening
        /\ (op[c] = "IsStopped" /\ pc[c] = "ret" /\ ret[c] = True) =>
              ~listening


\* C23: for a request that matches no registered route and in which no
\* middleware withheld next, every always-tier middleware ran and the
\* handler that answered is NotFoundHandler, with status 404 and the body
\* {"Error": "API Not Supported"}.
C23_NotFoundWrappedByAlways ==
    (request = NotFoundTarget /\ blocker = NoBlocker) =>
        /\ \A n \in fAlways : Mw("always", n) \in Range(executed)
        /\ executed[Len(executed)] = Terminal("NotFoundHandler")
        /\ terminalResponse(executed[Len(executed)].name) =
             [status |-> 404, body |-> "{\"Error\": \"API Not Supported\"}"]


\* ------------------------------------------------------------------------
\* Properties of the crash handler
\* ------------------------------------------------------------------------

\* the positions of the event e in the events of the crash handler's call
eventsAt(e) == {k \in DOMAIN crash.events : crash.events[k] = e}

\* C24: in a call of the crash handler's ServeHTTP, next is called once;
\* while next runs the handler has not been called; and when ServeHTTP has
\* exited, after a return of next as after a panic of next, the handler has
\* been called once with rw, after next exited.
C24_CrashHandler ==
    /\ crash.pc # "idle" => Cardinality(eventsAt("next(rw, r)")) = 1
    /\ crash.pc \in {"inNext", "exiting"} => eventsAt("m.handler(rw)") = {}
    /\ crash.pc \in {"returned", "unwound"} =>
         /\ Cardinality(eventsAt("m.handler(rw)")) = 1
         /\ \A h \in eventsAt("m.handler(rw)") :
              \E x \in eventsAt("next returns") \cup eventsAt("next panics") :
                  x < h

\* C24 witness: next panicked, the handler was called while the panic
\* unwound ServeHTTP, and the panic went on to the caller
C24_Witness ==
    /\ crash.pc = "unwound"
    /\ crash.events = <<"next(rw, r)", "next panics", "m.handler(rw)">>


\* the place of a chain element's tier in the dispatch order
tierRank(e) ==
    CASE e.tier = "always" -> 1
      [] e.tier = "default" -> 2
      [] e.tier = "available" -> 3
      [] e.tier = "handler" -> 4

\* the sequence p is the beginning of the sequence q
IsPrefix(p, q) == Len(p) <= Len(q) /\ SubSeq(q, 1, Len(p)) = p

\* what ran for the request matched to the i-th route is in dispatch order
\* and ends in the handler last: the tiers in the order always, default,
\* available, handler; the available-tier middleware in the order of
\* Include; when every middleware called next, the whole chain with last
\* once at its end; otherwise the chain up to the first middleware that did
\* not call next, and no handler
dispatched(i, last) ==
    LET route == updatedRoutes[i]
        kept == SelectSeq(route.Include, LAMBDA n : appendable(route, n))
        IsHandler(e) == e.tier = "handler"
    IN  /\ \A k, l \in DOMAIN executed :
             k < l => tierRank(executed[k]) <= tierRank(executed[l])
        /\ IsPrefix(availableOf(executed),
                    [k \in DOMAIN kept |-> Mw("available", kept[k])])
        /\ IsPrefix(executed, chainOf(i))
        /\ IF \A e \in middlewareOf(chainOf(i)) : e.name # blocker
           THEN /\ executed = chainOf(i)
                /\ executed[Len(executed)] = last
                /\ CountIn(executed, IsHandler) = 1
           ELSE /\ CountIn(executed, IsHandler) = 0
                /\ executed[Len(executed)].name = blocker
                /\ \A k \in 1..(Len(executed) - 1) :
                     executed[k].name # blocker

\* C25 as stated: what ran for a request matched to a route is in dispatch
\* order and ends in the handler of the route.
C25_DispatchOrder ==
    \A i \in DOMAIN updatedRoutes :
        request = RouteTarget(i) =>
            dispatched(i, Terminal(updatedRoutes[i].Name))

\* C25 (as amended): what ran for a request matched to a route is in
\* dispatch order and ends in the handler of the route, or, for the route
\* named "Apis", in the plain 404 of the route's empty subrouter.
C25_DispatchOrderButApis ==
    \A i \in DOMAIN updatedRoutes :
        request = RouteTarget(i) =>
            dispatched(i, IF updatedRoutes[i].Name = "Apis"
                          THEN Terminal("http.NotFound")
                          ELSE Terminal(updatedRoutes[i].Name))

\* C25 witness: a request matched to a route that includes an always-tier
\* and an available-tier name ran through the always-tier middleware and
\* the available-tier middleware to the handler of the route
C25_Witness ==
    /\ request = RouteTarget(1)
    /\ blocker = NoBlocker
    /\ updatedRoutes[1].Include = <<"a", "b">>
    /\ executed = <<Mw("always", "a"), Mw("available", "b"),
                    Terminal("HealthCheck")>>


\* C26: no middleware is applied more than once to a request: in the chain
\* Make bound to a route (the always chain followed by the route's own
\* chain) every registered middleware occurs at most once, whatever the
\* registry holds and whatever the route's Include list repeats.
C26_MiddlewareAtMostOnce ==
    made =>
        \A i \in DOMAIN updatedRoutes :
            \A e \in middlewareOf(chainOf(i)) :
                LET IsE(x) == x = e
                IN  CountIn(chainOf(i), IsE) <= 1


\* a StartHTTP call is returning nil on a Server that Stop had shut down
\* before: the earlier cycle StartHTTP, Running, Stop, Stopped is complete,
\* since a start is accepted only in the status Stopped
restarted ==
    \E c \in Callers :
        /\ op[c] = "StartHTTP" /\ pc[c] = "ret" /\ ret[c] = Nil
        /\ inShutdown

\* C27: a Server is restartable: once a further StartHTTP has returned nil
\* after a full cycle StartHTTP, Running, Stop, Stopped, the server again
\* reaches Running with its accept loop listening, unless Stop is called
\* before it does.
C27_Restartable ==
    restarted ~>
        \/ serverStatus = Running /\ listening
        \/ \E c \in Callers : op[c] = "Stop"


\* goroutine i has been started and has not entered ListenAndServe, or is
\* entering it with no socket open yet
beforeServing(i) == loopPc[i] \in {"lock1", "setRunning", "unlock1", "listen"}

\* thread c is past the status test of a Stop that goroutine i, started
\* before, has not begun to serve
stoppedEarly(c, i) ==
    /\ op[c] = "Stop" /\ pc[c] \in {"wait", "ret"}
    /\ ret[c] # ErrStopped
    /\ beforeServing(i)

\* C28: when Stop is called after a start returned and before its goroutine
\* has set Running or opened the socket, Stop returns nil, the goroutine
\* does not start serving after the shutdown request, and the goroutine
\* still sets the status to Stopped: the status does not stay Starting or
\* Running.
C28_StopBeforeServing ==
    /\ [](\A c \in Callers : \A i \in LoopIds :
            (stoppedEarly(c, i) /\ pc[c] = "ret") => ret[c] = Nil)
    /\ [][\A i \in LoopIds :
            (inShutdown /\ beforeServing(i)) =>
                /\ loopPc'[i] # "serving"
                /\ listening' = FALSE]_vars
    /\ \A c \in Callers : \A i \in LoopIds :
         stoppedEarly(c, i) ~> (loopPc[i] = "done" /\ serverStatus = Stopped)

\* C28 witness: Stop is returning nil in the status Starting, its shutdown
\* request made, while the goroutine of the start before it has not taken
\* the lock to set Running
C28_Witness ==
    \E c \in Callers : \E i \in LoopIds :
        /\ op[c] = "Stop" /\ pc[c] = "ret" /\ ret[c] = Nil
        /\ inShutdown
        /\ serverStatus = Starting
        /\ loopPc[i] = "lock1"


\* thread c has taken the lock in Stop and has not released it
stopInProgress(c) == op[c] = "Stop" /\ pc[c] \in {"locked", "wait", "ret"}

\* C29: Stop holds the lock of the Server from its entry to its return, the
\* wait for the requests in flight included: while a Stop call is in
\* progress no other call of a method of the Server begins or completes, the
\* status does not change, no listener is called, the listener is not
\* replaced, and so the status at the return of Stop is the status at its
\* entry.
C29_StopHoldsLock ==
    /\ [](\A c \in Callers : stopInProgress(c) => mutex = Caller(c))
    /\ [][\A c \in Callers :
            stopInProgress(c) =>
                /\ serverStatus' = serverStatus
                /\ listenerCalls' = listenerCalls
                /\ statusListener' = statusListener
                /\ \A d \in Callers \ {c} :
                     pc'[d] = pc[d] /\ op'[d] = op[d] /\ ret'[d] = ret[d]
                /\ \A i \in LoopIds :
                     loopPc[i] \in {"lock1", "lock2"} => loopPc'[i] = loopPc[i]]_vars

\* C29 witness: Stop waits in Shutdown for the request in flight, holding the
\* lock, in the status Running, while the goroutine whose ListenAndServe
\* has returned waits for the lock to set Stopped
C29_Witness ==
    \E c \in Callers : \E i \in LoopIds :
        /\ op[c] = "Stop" /\ pc[c] = "wait"
        /\ busy
        /\ mutex = Caller(c)
        /\ serverStatus = Running
        /\ loopPc[i] = "lock2"

=============================================================================
